---- MODULE Spec2Model ----
(***************************************************************************)
(* A model of Source/Core/Common/Logging/LogManager.cpp: the log           *)
(* containers (categories), the listener table, the level filter and the   *)
(* fan-out of LogManager::LogWithFullPath, the construction of LogManager  *)
(* from the logger configuration, the process-wide instance and the        *)
(* FileLogListener.                                                        *)
(***************************************************************************)
EXTENDS Integers, Sequences, FiniteSets, TLC

(***************************************************************************)
(* Enumerations of Log.h / LogManager.h.                                   *)
(***************************************************************************)
\* LogTypes::LOG_LEVELS
LNOTICE == 1
LERROR == 2
LWARNING == 3
LINFO == 4
LDEBUG == 5
LOG_LEVELS == LNOTICE..LDEBUG
\* the highest level a build keeps (LINFO in a release build)
MAX_LOGLEVEL == LINFO
\* LogTypes::LOG_LEVEL_TO_CHAR
LOG_LEVEL_TO_CHAR == <<"N", "E", "W", "I", "D">>

\* LogListener::LISTENER, in the order of the enumeration (the order in which
\* a BitSet32 is iterated)
LISTENER == <<"FILE_LISTENER", "CONSOLE_LISTENER", "LOG_WINDOW_LISTENER">>
ListenerIds == {LISTENER[i] : i \in 1..Len(LISTENER)}

\* The log types the model keeps of LogTypes::LOG_TYPE, with the short names
\* the constructor gives their containers.
LogTypes == {"AUDIO", "MASTER_LOG"}

(***************************************************************************)
(* Listener objects.  The constructor allocates the file and the console   *)
(* listener; every other listener belongs to code outside the manager,     *)
(* which hands a pointer to RegisterListener.                              *)
(***************************************************************************)
NullListener == "nullptr"
FileLogListenerObj == "FileLogListener"
ConsoleListenerObj == "ConsoleListener"
\* the listener owned by outside code: the log window of the GUI
ExternalListeners == {"LogWindow"}

(***************************************************************************)
(* Strings.  A string is kept as its text and its length: the model never  *)
(* looks inside a text, it compares strings and cuts them.                 *)
(***************************************************************************)
Str(text, len) == [text |-> text, len |-> len]
Min(a, b) == IF a < b THEN a ELSE b
\* the first n characters of s
Prefix(s, n) == Str(s.text, Min(s.len, n))

\* the names the constructor gives the containers
ShortNameOf(type) == IF type = "AUDIO" THEN Str("Audio", 5) ELSE Str("*", 1)
FullNameOf(type) == IF type = "AUDIO" THEN Str("Audio Emulator", 14) ELSE Str("Master Log", 10)

MAX_MSGLEN == 1024

\* CharArrayFromFormatV(temp, MAX_MSGLEN, format, args): the formatted
\* message in a buffer of outsize bytes, the terminating 0 included.
CharArrayFromFormatV(msg, outsize) == Prefix(msg, outsize - 1)

\* Common::Timer::GetTimeFormatted(): "MM:SS:mmm"
GetTimeFormatted == Str("MM:SS:mmm", 9)

\* StringFromFormat("%s %s:%u %c[%s]: %s\n", time, file, line, level char,
\* short name, temp): the line as the sequence of its pieces.
StringFromFormat(time, file, line, levelChar, shortName, temp) ==
    << time, Str(" ", 1), file, Str(":", 1), line, Str(" ", 1),
       Str(levelChar, 1), Str("[", 1), shortName, Str("]", 1),
       Str(": ", 2), temp, Str("\n", 1) >>

(***************************************************************************)
(* The logger configuration as the constructor reads it: a key is missing  *)
(* or holds a value.                                                       *)
(***************************************************************************)
IniBool == {"missing", "true", "false"}
\* IniFile::Section::Get(key, &bool, default)
GetBool(value, default) == IF value = "missing" THEN default ELSE value = "true"
\* how far below the lowest and above the highest level the Verbosity
\* values tried reach
VerbosityPad == 2
IniVerbosity == {[present |-> FALSE, value |-> 0]}
                \cup {[present |-> TRUE, value |-> v] :
                        v \in (LNOTICE - VerbosityPad)..(MAX_LOGLEVEL + VerbosityPad)}
\* IniFile::Section::Get(key, &int, default)
GetInt(v, default) == IF v.present THEN v.value ELSE default

Configs == [ WriteToFile : IniBool, WriteToConsole : IniBool, WriteToWindow : IniBool,
             Verbosity : IniVerbosity, Logs : [LogTypes -> IniBool] ]
\* the configuration with every key missing
NoKeys == [ WriteToFile |-> "missing", WriteToConsole |-> "missing",
            WriteToWindow |-> "missing", Verbosity |-> [present |-> FALSE, value |-> 0],
            Logs |-> [t \in LogTypes |-> "missing"] ]

VARIABLES
    s_log_manager,  \* the singleton pointer: "nullptr" or "LogManager"
    m_log,          \* LogManager::m_log: log type -> LogContainer
    m_level,        \* LogManager::m_level
    m_listeners,    \* LogManager::m_listeners: listener id -> listener object
    lastOp,         \* the last call made and what it did
    m_logfile,      \* FileLogListener::m_logfile: the stream and what it wrote
    m_enable,       \* FileLogListener::m_enable
    m_log_lock,     \* FileLogListener::m_log_lock: the thread holding it, or none
    pc,             \* thread -> where the thread is in FileLogListener::Log
    call,           \* thread -> the Log call the thread is making or made last
    instances,      \* the LogManager objects constructed and not deleted
    log_thread,     \* the thread inside GenericLog: where it is and what it read
    shut_pc         \* where the thread inside LogManager::Shutdown is

managerState == <<s_log_manager, m_log, m_level, m_listeners>>
managerVars == <<managerState, lastOp>>
fileVars == <<m_logfile, m_enable, m_log_lock, pc, call>>
threadVars == <<log_thread, shut_pc>>
vars == <<managerVars, fileVars, instances, threadVars>>

\* what lastOp holds when a call leaves a field unused
NoOp == [op |-> "none", level |-> 0, type |-> "", id |-> "", listener |-> NullListener,
         enable |-> FALSE, msg |-> Str("", 0), formatted |-> FALSE, line |-> <<>>,
         events |-> <<>>, fault |-> FALSE, cfg |-> NoKeys, deleted |-> <<>>]

(***************************************************************************)
(* LogManager::LogManager()                                                *)
(***************************************************************************)
\* LogContainer::LogContainer(short_name, full_name, enable = false)
LogContainer(short_name, full_name) ==
    [m_full_name |-> full_name, m_short_name |-> short_name,
     m_enable |-> FALSE, m_listener_ids |-> {}]

\* the options read with their defaults
WriteFile(cfg) == GetBool(cfg.WriteToFile, FALSE)
WriteConsole(cfg) == GetBool(cfg.WriteToConsole, TRUE)
WriteWindow(cfg) == GetBool(cfg.WriteToWindow, TRUE)

\* the check without its upper bound
ValidVerbosityNoUpper(verbosity) == IF verbosity < 1 THEN 1 ELSE verbosity

\* "Ensure the verbosity level is valid"
ValidVerbosity(verbosity) ==
    LET v == IF verbosity < 1 THEN 1 ELSE verbosity
    IN  IF v > MAX_LOGLEVEL THEN MAX_LOGLEVEL ELSE v

\* a loop that adds the listeners whether or not the log type is enabled
WireContainerAlways(container, enable, write_file, write_console, write_window) ==
    [container EXCEPT
        !.m_enable = enable,
        !.m_listener_ids =
            (IF write_file THEN {"FILE_LISTENER"} ELSE {})
            \cup (IF write_console THEN {"CONSOLE_LISTENER"} ELSE {})
            \cup (IF write_window THEN {"LOG_WINDOW_LISTENER"} ELSE {})]

\* the loop over m_log: SetEnable and the three AddListener calls
WireContainer(container, enable, write_file, write_console, write_window) ==
    [container EXCEPT
        !.m_enable = enable,
        !.m_listener_ids =
            (IF enable /\ write_file THEN {"FILE_LISTENER"} ELSE {})
            \cup (IF enable /\ write_console THEN {"CONSOLE_LISTENER"} ELSE {})
            \cup (IF enable /\ write_window THEN {"LOG_WINDOW_LISTENER"} ELSE {})]

\* m_listeners after the two RegisterListener calls of the constructor
ConstructedListeners ==
    [id \in ListenerIds |->
        IF id = "FILE_LISTENER" THEN FileLogListenerObj
        ELSE IF id = "CONSOLE_LISTENER" THEN ConsoleListenerObj
        ELSE NullListener]

ConstructedLevel(cfg) == ValidVerbosity(GetInt(cfg.Verbosity, 0))

\* a loop that reads a missing key of [Logs] as true
ConstructedLogDefaultEnabled(cfg) ==
    [t \in LogTypes |->
        WireContainer(LogContainer(ShortNameOf(t), FullNameOf(t)), GetBool(cfg.Logs[t], TRUE),
                      WriteFile(cfg), WriteConsole(cfg), WriteWindow(cfg))]

\* the loop over m_log with the keys of [Logs]
ConstructedLog(cfg) ==
    [t \in LogTypes |->
        WireContainer(LogContainer(ShortNameOf(t), FullNameOf(t)), GetBool(cfg.Logs[t], FALSE),
                      WriteFile(cfg), WriteConsole(cfg), WriteWindow(cfg))]

\* the state the constructor leaves
Constructed(cfg) ==
    /\ s_log_manager = "LogManager"
    /\ m_log = ConstructedLog(cfg)
    /\ m_level = ConstructedLevel(cfg)
    /\ m_listeners = ConstructedListeners
    /\ lastOp = [NoOp EXCEPT !.op = "LogManager", !.cfg = cfg]

(***************************************************************************)
(* The operations of a live LogManager.                                    *)
(***************************************************************************)
Live == s_log_manager # "nullptr"

\* LogManager::GetShortName, LogManager::GetFullName
GetShortName(type) == m_log[type].m_short_name
GetFullName(type) == m_log[type].m_full_name

GetLogLevel == m_level

SetLogLevel(level) ==
    /\ Live
    /\ m_level' = level
    /\ lastOp' = NoOp
    /\ UNCHANGED <<s_log_manager, m_log, m_listeners, fileVars, instances, threadVars>>

\* a SetEnable that can enable a log type and never disables it
SetEnableSticky(type, enable) ==
    /\ Live
    /\ m_log' = [m_log EXCEPT ![type].m_enable = @ \/ enable]
    /\ lastOp' = NoOp
    /\ UNCHANGED <<s_log_manager, m_level, m_listeners, fileVars, instances, threadVars>>

\* LogManager::SetEnable
SetEnable(type, enable) ==
    /\ Live
    /\ m_log' = [m_log EXCEPT ![type].m_enable = enable]
    /\ lastOp' = NoOp
    /\ UNCHANGED <<s_log_manager, m_level, m_listeners, fileVars, instances, threadVars>>

\* an IsEnabled that leaves out the level equal to the threshold
IsEnabledStrict(type, level) == m_log[type].m_enable /\ GetLogLevel > level

\* LogManager::IsEnabled
IsEnabled(type, level) == m_log[type].m_enable /\ GetLogLevel >= level

\* a RegisterListener that leaves an entry that holds a listener as it is
RegisterListenerKeeps(id, listener) ==
    /\ Live
    /\ m_listeners' = [m_listeners EXCEPT ![id] = IF @ = NullListener THEN listener ELSE @]
    /\ lastOp' = NoOp
    /\ UNCHANGED <<s_log_manager, m_log, m_level, fileVars, instances, threadVars>>

\* LogManager::RegisterListener
RegisterListener(id, listener) ==
    /\ Live
    /\ m_listeners' = [m_listeners EXCEPT ![id] = listener]
    /\ lastOp' = NoOp
    /\ UNCHANGED <<s_log_manager, m_log, m_level, fileVars, instances, threadVars>>

\* an AddListener that replaces the listener ids by the one added
AddListenerReplaces(type, id) ==
    /\ Live
    /\ m_log' = [m_log EXCEPT ![type].m_listener_ids = {id}]
    /\ lastOp' = NoOp
    /\ UNCHANGED <<s_log_manager, m_level, m_listeners, fileVars, instances, threadVars>>

\* LogManager::AddListener
AddListener(type, id) ==
    /\ Live
    /\ m_log' = [m_log EXCEPT ![type].m_listener_ids = @ \cup {id}]
    /\ lastOp' = NoOp
    /\ UNCHANGED <<s_log_manager, m_level, m_listeners, fileVars, instances, threadVars>>

\* a RemoveListener that leaves the listener ids as they are
RemoveListenerKeeps(type, id) ==
    /\ Live
    /\ lastOp' = NoOp
    /\ UNCHANGED <<s_log_manager, m_log, m_level, m_listeners, fileVars, instances, threadVars>>

RemoveListener(type, id) ==
    /\ Live
    /\ m_log' = [m_log EXCEPT ![type].m_listener_ids = @ \ {id}]
    /\ lastOp' = NoOp
    /\ UNCHANGED <<s_log_manager, m_level, m_listeners, fileVars, instances, threadVars>>

\* LogContainer::HasListeners
HasListeners(log) == log.m_listener_ids # {}

\* the ids of a container in the order of its iterator
IdsInOrder(log) == SelectSeq(LISTENER, LAMBDA id : id \in log.m_listener_ids)

\* a loop that stops after the first Log call
FanOutFirstOnly(log, level, text) ==
    LET ids == SelectSeq(IdsInOrder(log), LAMBDA id : m_listeners[id] # NullListener)
    IN  [i \in 1..(IF ids = <<>> THEN 0 ELSE 1) |->
            [id |-> ids[i], listener |-> m_listeners[ids[i]], level |-> level, msg |-> text]]

\* the Log calls of the loop over the container's listener ids
FanOut(log, level, text) ==
    LET ids == SelectSeq(IdsInOrder(log), LAMBDA id : m_listeners[id] # NullListener)
    IN  [i \in 1..Len(ids) |->
            [id |-> ids[i], listener |-> m_listeners[ids[i]], level |-> level, msg |-> text]]

\* a LogWithFullPath that formats the message before it tests anything
LogWithFullPathFormatsFirst(level, type, file, line, msg) ==
    LET log == m_log[type]
        temp == CharArrayFromFormatV(msg, MAX_MSGLEN)
        text == StringFromFormat(GetTimeFormatted, file, line,
                                 LOG_LEVEL_TO_CHAR[level], GetShortName(type), temp)
    IN  IF ~log.m_enable \/ level > GetLogLevel \/ ~HasListeners(log)
        THEN [formatted |-> TRUE, line |-> text, events |-> <<>>, fault |-> FALSE]
        ELSE [formatted |-> TRUE, line |-> text, events |-> FanOut(log, level, text),
              fault |-> FALSE]

\* a LogWithFullPath that does not test whether the log type is enabled
LogWithFullPathNoEnable(level, type, file, line, msg) ==
    LET log == m_log[type] IN
    IF level > GetLogLevel \/ ~HasListeners(log)
    THEN [formatted |-> FALSE, line |-> <<>>, events |-> <<>>, fault |-> FALSE]
    ELSE LET temp == CharArrayFromFormatV(msg, MAX_MSGLEN)
             text == StringFromFormat(GetTimeFormatted, file, line,
                                      LOG_LEVEL_TO_CHAR[level], GetShortName(type), temp)
         IN  [formatted |-> TRUE, line |-> text, events |-> FanOut(log, level, text),
              fault |-> FALSE]

\* a LogWithFullPath that lets the level next below the threshold through
LogWithFullPathOffByOne(level, type, file, line, msg) ==
    LET log == m_log[type] IN
    IF ~log.m_enable \/ level > GetLogLevel + 1 \/ ~HasListeners(log)
    THEN [formatted |-> FALSE, line |-> <<>>, events |-> <<>>, fault |-> FALSE]
    ELSE LET temp == CharArrayFromFormatV(msg, MAX_MSGLEN)
             text == StringFromFormat(GetTimeFormatted, file, line,
                                      LOG_LEVEL_TO_CHAR[level], GetShortName(type), temp)
         IN  [formatted |-> TRUE, line |-> text, events |-> FanOut(log, level, text),
              fault |-> FALSE]

\* LogManager::LogWithFullPath: what the call formats and which Log calls
\* it makes
LogWithFullPath(level, type, file, line, msg) ==
    LET log == m_log[type] IN
    IF ~log.m_enable \/ level > GetLogLevel \/ ~HasListeners(log)
    THEN [formatted |-> FALSE, line |-> <<>>, events |-> <<>>, fault |-> FALSE]
    ELSE LET temp == CharArrayFromFormatV(msg, MAX_MSGLEN)
             text == StringFromFormat(GetTimeFormatted, file, line,
                                      LOG_LEVEL_TO_CHAR[level], GetShortName(type), temp)
         IN  [formatted |-> TRUE, line |-> text, events |-> FanOut(log, level, text),
              fault |-> FALSE]

\* instance->Log(level, type, file, line, fmt, args): a member call through
\* a null pointer is a fault, any other call runs LogWithFullPath
Log(instance, level, type, file, line, msg) ==
    IF instance = "nullptr"
    THEN [formatted |-> FALSE, line |-> <<>>, events |-> <<>>, fault |-> TRUE]
    ELSE LogWithFullPath(level, type, file, line, msg)

\* what a call that does nothing leaves
NoLog == [formatted |-> FALSE, line |-> <<>>, events |-> <<>>, fault |-> FALSE]

\* a GenericLog that calls Log without testing the instance
GenericLogUnchecked(level, type, file, line, msg) ==
    /\ LET r == Log(s_log_manager, level, type, file, line, msg)
       IN  lastOp' = [NoOp EXCEPT !.op = "GenericLog", !.level = level, !.type = type,
                                  !.msg = msg, !.formatted = r.formatted,
                                  !.line = r.line, !.events = r.events,
                                  !.fault = r.fault]
    /\ UNCHANGED <<s_log_manager, m_log, m_level, m_listeners, fileVars, instances, threadVars>>

\* GenericLog: the entry point of every call site
GenericLog(level, type, file, line, msg) ==
    /\ LET r == IF s_log_manager # "nullptr"
                THEN Log(s_log_manager, level, type, file, line, msg)
                ELSE NoLog
       IN  lastOp' = [NoOp EXCEPT !.op = "GenericLog", !.level = level, !.type = type,
                                  !.msg = msg, !.formatted = r.formatted,
                                  !.line = r.line, !.events = r.events,
                                  !.fault = r.fault]
    /\ UNCHANGED <<s_log_manager, m_log, m_level, m_listeners, fileVars, instances, threadVars>>

\* the messages, files and lines the calls are made with: a short message
\* and one that does not fit the buffer
Messages == {Str("buffer underrun", 15), Str("long", MAX_MSGLEN)}
\* the message the call sites of a log type pass
MessageOf(type) == IF type = "AUDIO" THEN Str("buffer underrun", 15)
                   ELSE Str("long", MAX_MSGLEN)
SourceFile == Str("audio.cpp", 9)
SourceLine == Str("42", 2)

(***************************************************************************)
(* The process-wide instance.                                              *)
(***************************************************************************)
GetInstance == s_log_manager

\* the LogManager objects there can be at a time
MaxInstances == 2

\* LogManager::Init: s_log_manager = new LogManager()
LogManagerInit(cfg) ==
    /\ s_log_manager' = "LogManager"
    /\ m_log' = ConstructedLog(cfg)
    /\ m_level' = ConstructedLevel(cfg)
    /\ m_listeners' = ConstructedListeners
    /\ lastOp' = [NoOp EXCEPT !.op = "LogManager", !.cfg = cfg]
    /\ instances < MaxInstances
    /\ instances' = instances + 1
    /\ UNCHANGED <<fileVars, threadVars>>

\* the fields when there is no LogManager
NoContainers == [t \in LogTypes |-> LogContainer(ShortNameOf(t), FullNameOf(t))]
NoListeners == [id \in ListenerIds |-> NullListener]
NoLevel == LNOTICE

\* LogManager::~LogManager: the listeners it deletes, in order; delete of a
\* null pointer does nothing
Destructor ==
    SelectSeq(<<m_listeners["CONSOLE_LISTENER"], m_listeners["FILE_LISTENER"]>>,
              LAMBDA l : l # NullListener)

\* LogManager::Shutdown: delete s_log_manager; s_log_manager = nullptr
Shutdown ==
    /\ s_log_manager' = "nullptr"
    /\ m_log' = NoContainers
    /\ m_level' = NoLevel
    /\ m_listeners' = NoListeners
    /\ lastOp' = [NoOp EXCEPT !.op = "Shutdown",
                              !.deleted = IF Live THEN Destructor ELSE <<>>]
    /\ instances' = IF Live THEN instances - 1 ELSE instances
    /\ UNCHANGED <<fileVars, threadVars>>

(***************************************************************************)
(* GenericLog and Shutdown a statement at a time, for the calls that run   *)
(* while other threads call the LogManager.  log_thread holds where the    *)
(* thread inside GenericLog is, what it has read and the Log calls it has  *)
(* made; its field seen holds, for every instant of the call, the ids a    *)
(* log call made all at once at that instant would have called.            *)
(***************************************************************************)
NoCall == [pc |-> "idle", level |-> 0, type |-> "", ids |-> <<>>, delivered |-> <<>>,
           formatted |-> FALSE, fault |-> "none", seen |-> {}, others |-> 0]

\* calls other threads make while one log call runs
MaxConcurrent == 2

\* the object s_log_manager pointed to has been deleted
Destroyed == instances = 0

\* the ids LogWithFullPath calls when it runs with nothing in between
AtOnce(log, threshold, listeners, level) ==
    IF ~log.m_enable \/ level > threshold \/ ~HasListeners(log)
    THEN <<>>
    ELSE SelectSeq(IdsInOrder(log), LAMBDA id : listeners[id] # NullListener)

\* a statement of the log call that reads the LogManager, its containers
\* or its listeners: next is what it leaves.  On a deleted object the read
\* is a use after free: the thread crashes or goes on with what the memory
\* still holds.
LogStep(next) ==
    /\ log_thread' \in
            IF Destroyed
            THEN {[log_thread EXCEPT !.fault = "freed", !.pc = "crashed"],
                  [next EXCEPT !.fault = "freed"]}
            ELSE {next}
    /\ lastOp' = NoOp
    /\ UNCHANGED <<managerState, fileVars, instances, shut_pc>>

\* GenericLog, line 81: if (LogManager::GetInstance())
LogTestInstance(level, type) ==
    /\ log_thread.pc = "idle"
    /\ log_thread' =
            [NoCall EXCEPT !.pc = IF GetInstance = "nullptr" THEN "done" ELSE "GetInstance",
                           !.level = level, !.type = type,
                           !.seen = IF Live /\ ~Destroyed
                                    THEN {AtOnce(m_log[type], m_level, m_listeners, level)}
                                    ELSE {<<>>}]
    /\ lastOp' = NoOp
    /\ UNCHANGED <<managerState, fileVars, instances, shut_pc>>

\* line 82: LogManager::GetInstance()->Log(...), a call through the pointer
\* read a second time
LogGetInstance ==
    /\ log_thread.pc = "GetInstance"
    /\ IF GetInstance = "nullptr"
       THEN /\ log_thread' = [log_thread EXCEPT !.fault = "null", !.pc = "crashed"]
            /\ lastOp' = NoOp
            /\ UNCHANGED <<managerState, fileVars, instances, shut_pc>>
       ELSE LogStep([log_thread EXCEPT !.pc = "IsEnabled"])

\* line 211: !log->IsEnabled()
LogReadEnable ==
    /\ log_thread.pc = "IsEnabled"
    /\ LogStep([log_thread EXCEPT !.pc = IF m_log[log_thread.type].m_enable
                                         THEN "GetLogLevel" ELSE "done"])

\* line 211: level > GetLogLevel()
LogReadLevel ==
    /\ log_thread.pc = "GetLogLevel"
    /\ LogStep([log_thread EXCEPT !.pc = IF log_thread.level > GetLogLevel
                                         THEN "done" ELSE "HasListeners"])

\* line 211: !log->HasListeners()
LogReadHasListeners ==
    /\ log_thread.pc = "HasListeners"
    /\ LogStep([log_thread EXCEPT !.pc = IF HasListeners(m_log[log_thread.type])
                                         THEN "format" ELSE "done"])

\* lines 214-218: the message is formatted, with log->GetShortName()
LogFormat ==
    /\ log_thread.pc = "format"
    /\ LogStep([log_thread EXCEPT !.pc = "begin", !.formatted = TRUE])

\* line 220: the iterator of the loop takes the listener ids as they are
LogBeginLoop ==
    /\ log_thread.pc = "begin"
    /\ LogStep([log_thread EXCEPT !.pc = "loop",
                                  !.ids = IdsInOrder(m_log[log_thread.type])])

\* lines 221-222: if (m_listeners[listener_id]) m_listeners[listener_id]->Log
LogDeliver ==
    /\ log_thread.pc = "loop"
    /\ IF log_thread.ids = <<>>
       THEN /\ log_thread' = [log_thread EXCEPT !.pc = "done"]
            /\ lastOp' = NoOp
            /\ UNCHANGED <<managerState, fileVars, instances, shut_pc>>
       ELSE LET id == Head(log_thread.ids) IN
            LogStep([log_thread EXCEPT
                        !.ids = Tail(@),
                        !.delivered = IF m_listeners[id] # NullListener
                                      THEN Append(@, id) ELSE @])

\* the log call is between its first statement and its return
InFlight == log_thread.pc \notin {"idle", "done", "crashed"}

\* what a call of another thread leaves in log_thread: the ids a log call
\* made at once would call now
Observe(logs, threshold) ==
    /\ InFlight
    /\ log_thread.others < MaxConcurrent
    /\ log_thread' =
            [log_thread EXCEPT
                !.others = @ + 1,
                !.seen = @ \cup {AtOnce(logs[log_thread.type], threshold, m_listeners,
                                        log_thread.level)}]
    /\ lastOp' = NoOp
    /\ UNCHANGED <<s_log_manager, m_listeners, fileVars, instances, shut_pc>>

\* LogManager::SetEnable, SetLogLevel, AddListener and RemoveListener called
\* by another thread while the log call runs
ConcurrentSetEnable(type, enable) ==
    /\ m_log' = [m_log EXCEPT ![type].m_enable = enable]
    /\ m_level' = m_level
    /\ Observe(m_log', m_level')

ConcurrentSetLogLevel(level) ==
    /\ m_level' = level
    /\ m_log' = m_log
    /\ Observe(m_log', m_level')

ConcurrentAddListener(type, id) ==
    /\ m_log' = [m_log EXCEPT ![type].m_listener_ids = @ \cup {id}]
    /\ m_level' = m_level
    /\ Observe(m_log', m_level')

ConcurrentRemoveListener(type, id) ==
    /\ m_log' = [m_log EXCEPT ![type].m_listener_ids = @ \ {id}]
    /\ m_level' = m_level
    /\ Observe(m_log', m_level')

\* LogManager::Shutdown, line 285: delete s_log_manager
ShutdownDelete ==
    /\ shut_pc = "idle"
    /\ shut_pc' = "null"
    /\ instances' = IF Live THEN instances - 1 ELSE instances
    /\ lastOp' = [NoOp EXCEPT !.op = "~LogManager",
                              !.deleted = IF Live THEN Destructor ELSE <<>>]
    /\ UNCHANGED <<managerState, fileVars, log_thread>>

\* line 286: s_log_manager = nullptr
ShutdownNull ==
    /\ shut_pc = "null"
    /\ shut_pc' = "done"
    /\ s_log_manager' = "nullptr"
    /\ lastOp' = [NoOp EXCEPT !.op = "Shutdown"]
    /\ UNCHANGED <<m_log, m_level, m_listeners, fileVars, instances, log_thread>>

(***************************************************************************)
(* FileLogListener.  Threads call Log on one listener; a message is a      *)
(* sequence of characters, each naming its thread, its call and its place. *)
(***************************************************************************)
NumThreads == 2
\* Log calls the threads make in all
MaxCalls == 3
\* characters of a message
MsgLen == 2
Threads == 1..NumThreads
\* the value of m_log_lock when no thread holds it
NoThread == 0
MsgOf(t, n) == [i \in 1..MsgLen |-> <<t, n, i>>]

\* FileLogListener::FileLogListener: OpenFStream opens the file or fails,
\* SetEnable(true)
FileLogListener(opened) ==
    /\ m_logfile = [is_open |-> opened, good |-> opened, content |-> <<>>, flushed |-> 0]
    /\ m_enable = TRUE
    /\ m_log_lock = NoThread
    /\ pc = [t \in Threads |-> "idle"]
    /\ call = [t \in Threads |-> [n |-> 0, k |-> 0, passed |-> {}]]

\* an IsValid that does not look at the stream
IsValidAlways == TRUE
\* FileLogListener::IsValid
IsValid == m_logfile.good
FileIsEnabled == m_enable

FileOp(name) == [NoOp EXCEPT !.op = name]

RECURSIVE CallsOf(_)
\* the Log calls the threads 1..t have made
CallsOf(t) == IF t = 0 THEN 0 ELSE call[t].n + CallsOf(t - 1)

\* FileLogListener::SetEnable
FileSetEnable(enable) ==
    /\ m_enable' = enable
    /\ lastOp' = NoOp
    /\ UNCHANGED <<m_logfile, m_log_lock, pc, call, managerState, instances, threadVars>>

\* a thread calls Log and reads m_enable: if (!IsEnabled() ...) return;
LogIsEnabled(t) ==
    /\ pc[t] = "idle"
    /\ CallsOf(NumThreads) < MaxCalls
    /\ call' = [call EXCEPT ![t].n = @ + 1, ![t].k = 0]
    /\ pc' = [pc EXCEPT ![t] = IF ~FileIsEnabled THEN "idle" ELSE "IsValid"]
    /\ lastOp' = NoOp
    /\ UNCHANGED <<m_logfile, m_enable, m_log_lock, managerState, instances, threadVars>>

\* ... || !IsValid()) return;
LogIsValid(t) ==
    /\ pc[t] = "IsValid"
    /\ pc' = [pc EXCEPT ![t] = IF ~IsValid THEN "idle" ELSE "lock"]
    /\ call' = [call EXCEPT ![t].passed = IF IsValid THEN @ \cup {call[t].n} ELSE @]
    /\ lastOp' = NoOp
    /\ UNCHANGED <<m_logfile, m_enable, m_log_lock, managerState, instances, threadVars>>

\* a lock that never waits
MutexLockNoWait(t) == TRUE
\* std::mutex::lock: waits until no thread holds the mutex
MutexLock(t) == m_log_lock = NoThread

\* std::lock_guard<std::mutex> lk(m_log_lock)
LogLock(t) ==
    /\ pc[t] = "lock"
    /\ MutexLock(t)
    /\ m_log_lock' = t
    /\ pc' = [pc EXCEPT ![t] = "write"]
    /\ lastOp' = NoOp
    /\ UNCHANGED <<m_logfile, m_enable, call, managerState, instances, threadVars>>

\* a write that puts each character at the start of the file, as a stream
\* not opened with std::ios::app and rewound would
LogWriteAtStart(t) ==
    /\ pc[t] = "write"
    /\ LET last == call[t].k + 1 = MsgLen
           written == <<MsgOf(t, call[t].n)[call[t].k + 1]>> \o m_logfile.content
       IN  /\ m_logfile' =
                IF ~m_logfile.good THEN m_logfile
                ELSE [m_logfile EXCEPT !.content = written,
                                       !.flushed = IF last THEN Len(written) ELSE @]
           /\ pc' = [pc EXCEPT ![t] = IF last THEN "unlock" ELSE "write"]
    /\ call' = [call EXCEPT ![t].k = @ + 1]
    /\ lastOp' = NoOp
    /\ UNCHANGED <<m_enable, m_log_lock, managerState, instances, threadVars>>

\* m_logfile << msg << std::flush, a character at a time, the flush with
\* the last one; a stream that is not good takes nothing
LogWrite(t) ==
    /\ pc[t] = "write"
    /\ LET last == call[t].k + 1 = MsgLen
           written == Append(m_logfile.content, MsgOf(t, call[t].n)[call[t].k + 1])
       IN  /\ m_logfile' =
                IF ~m_logfile.good THEN m_logfile
                ELSE [m_logfile EXCEPT !.content = written,
                                       !.flushed = IF last THEN Len(written) ELSE @]
           /\ pc' = [pc EXCEPT ![t] = IF last THEN "unlock" ELSE "write"]
    /\ call' = [call EXCEPT ![t].k = @ + 1]
    /\ lastOp' = NoOp
    /\ UNCHANGED <<m_enable, m_log_lock, managerState, instances, threadVars>>

\* the end of the scope of lk
LogUnlock(t) ==
    /\ pc[t] = "unlock"
    /\ m_log_lock' = IF m_log_lock = t THEN NoThread ELSE m_log_lock
    /\ pc' = [pc EXCEPT ![t] = "idle"]
    /\ lastOp' = NoOp
    /\ UNCHANGED <<m_logfile, m_enable, call, managerState, instances, threadVars>>

\* a write to the file fails (the disk is full, the file is gone): the
\* stream is no longer good
WriteFails ==
    /\ m_logfile.good
    /\ m_logfile' = [m_logfile EXCEPT !.good = FALSE]
    /\ lastOp' = NoOp
    /\ UNCHANGED <<m_enable, m_log_lock, pc, call, managerState, instances, threadVars>>

(***************************************************************************)
(* Spec: a constructed LogManager and the calls made on it.                *)
(***************************************************************************)
\* the FileLogListener at rest
FileAtRest == FileLogListener(TRUE)
\* no thread inside GenericLog or Shutdown
ThreadsAtRest == log_thread = NoCall /\ shut_pc = "idle"

Init ==
    /\ \E cfg \in Configs : Constructed(cfg)
    /\ FileAtRest
    /\ instances = 1
    /\ ThreadsAtRest

Next ==
    \/ \E level \in LOG_LEVELS : SetLogLevel(level)
    \/ \E type \in LogTypes, enable \in BOOLEAN : SetEnable(type, enable)
    \/ \E id \in ListenerIds, l \in ExternalListeners \cup {NullListener} :
            RegisterListener(id, l)
    \/ \E type \in LogTypes, id \in ListenerIds : AddListener(type, id)
    \/ \E type \in LogTypes, id \in ListenerIds : RemoveListener(type, id)
    \/ \E level \in LOG_LEVELS, type \in LogTypes :
            GenericLog(level, type, SourceFile, SourceLine, MessageOf(type))

Spec == Init /\ [][Next]_vars

(***************************************************************************)
(* SpecFrame: the setters of the manager, with the log calls made at the   *)
(* lowest and at the highest level only.                                   *)
(***************************************************************************)
FrameLevels == {LNOTICE, LDEBUG}

NextFrame ==
    \/ \E level \in LOG_LEVELS : SetLogLevel(level)
    \/ \E type \in LogTypes, enable \in BOOLEAN : SetEnable(type, enable)
    \/ \E id \in ListenerIds, l \in ExternalListeners \cup {NullListener} :
            RegisterListener(id, l)
    \/ \E type \in LogTypes, id \in ListenerIds : AddListener(type, id)
    \/ \E type \in LogTypes, id \in ListenerIds : RemoveListener(type, id)
    \/ \E level \in FrameLevels, type \in LogTypes :
            GenericLog(level, type, SourceFile, SourceLine, MessageOf(type))

SpecFrame == Init /\ [][NextFrame]_vars

(***************************************************************************)
(* SpecReg: the listener table rewritten with the listeners of the GUI     *)
(* code, of which there are two, and with nullptr; the listener ids of the *)
(* log types are those the configuration wired.                            *)
(***************************************************************************)
GuiListeners == ExternalListeners \cup {"LogWidget"}

NextReg ==
    \/ \E id \in ListenerIds, l \in GuiListeners \cup {NullListener} :
            RegisterListener(id, l)
    \/ \E level \in FrameLevels, type \in LogTypes :
            GenericLog(level, type, SourceFile, SourceLine, MessageOf(type))

SpecReg == Init /\ [][NextReg]_vars

(***************************************************************************)
(* SpecLife: the instance from before the first Init on.                   *)
(***************************************************************************)
InitLife ==
    /\ s_log_manager = "nullptr"
    /\ m_log = NoContainers
    /\ m_level = NoLevel
    /\ m_listeners = NoListeners
    /\ lastOp = NoOp
    /\ FileAtRest
    /\ instances = 0
    /\ ThreadsAtRest

NextLife ==
    \/ \E cfg \in Configs : LogManagerInit(cfg)
    \/ Shutdown
    \/ \E level \in LOG_LEVELS, type \in LogTypes :
            GenericLog(level, type, SourceFile, SourceLine, MessageOf(type))

SpecLife == InitLife /\ [][NextLife]_vars

(***************************************************************************)
(* SpecFile: a FileLogListener and the threads that call Log on it.        *)
(***************************************************************************)
InitFile ==
    /\ \E opened \in BOOLEAN : FileLogListener(opened)
    /\ s_log_manager = "nullptr"
    /\ m_log = NoContainers
    /\ m_level = NoLevel
    /\ m_listeners = NoListeners
    /\ lastOp = FileOp("FileLogListener")
    /\ instances = 0
    /\ ThreadsAtRest

NextFile ==
    \/ \E enable \in BOOLEAN : FileSetEnable(enable)
    \/ WriteFails
    \/ \E t \in Threads : LogIsEnabled(t)
    \/ \E t \in Threads : LogIsValid(t)
    \/ \E t \in Threads : LogLock(t)
    \/ \E t \in Threads : LogWrite(t)
    \/ \E t \in Threads : LogUnlock(t)

SpecFile == InitFile /\ [][NextFile]_vars

(***************************************************************************)
(* SpecOwn: a constructed LogManager, the listeners registered on it and   *)
(* its teardown.                                                           *)
(***************************************************************************)
NextOwn ==
    \/ \E id \in ListenerIds, l \in ExternalListeners \cup {NullListener} :
            RegisterListener(id, l)
    \/ Shutdown

SpecOwn == Init /\ [][NextOwn]_vars

(***************************************************************************)
(* SpecRace: one log call, and the calls other threads make on the         *)
(* LogManager while it runs.                                               *)
(***************************************************************************)
NextLogCall ==
    \/ LogGetInstance
    \/ LogReadEnable
    \/ LogReadLevel
    \/ LogReadHasListeners
    \/ LogFormat
    \/ LogBeginLoop
    \/ LogDeliver

NextRace ==
    \/ \E level \in LOG_LEVELS, type \in LogTypes : LogTestInstance(level, type)
    \/ NextLogCall
    \/ \E type \in LogTypes, enable \in BOOLEAN : ConcurrentSetEnable(type, enable)
    \/ \E level \in LOG_LEVELS : ConcurrentSetLogLevel(level)
    \/ \E type \in LogTypes, id \in ListenerIds : ConcurrentAddListener(type, id)
    \/ \E type \in LogTypes, id \in ListenerIds : ConcurrentRemoveListener(type, id)

SpecRace == Init /\ [][NextRace]_vars

(***************************************************************************)
(* SpecShut: one log call in one thread and Shutdown in another.           *)
(***************************************************************************)
NextShut ==
    \/ \E level \in LOG_LEVELS, type \in LogTypes : LogTestInstance(level, type)
    \/ NextLogCall
    \/ ShutdownDelete
    \/ ShutdownNull

SpecShut == Init /\ [][NextShut]_vars

(***************************************************************************)
(* What the properties say of the last call.                               *)
(***************************************************************************)
\* the last call was a log call on a live LogManager
Logged == lastOp.op = "GenericLog" /\ Live
\* the Log calls it made on listeners
Emits == {lastOp.events[i] : i \in 1..Len(lastOp.events)}
\* how many of them went through listener id, how many reached a listener
EmitsVia(id) == Cardinality({i \in 1..Len(lastOp.events) : lastOp.events[i].id = id})
EmitsOn(listener) ==
    Cardinality({i \in 1..Len(lastOp.events) : lastOp.events[i].listener = listener})
\* the level passes the threshold
Passes(level) == level <= m_level
\* the ids of a log type at which a listener is registered
LiveIds(type) == {id \in m_log[type].m_listener_ids : m_listeners[id] # NullListener}

(***************************************************************************)
(* C1 (invariant I2).  Whenever a log call on log type c at some level     *)
(* calls Log on the listener registered at id X, X is in c's listener ids, *)
(* the listener called is the non-null one registered at X, c is enabled   *)
(* and the level is not above the threshold; a log on a disabled log type  *)
(* calls no listener.                                                      *)
(***************************************************************************)
C1_DeliveredOnlyIfRouted ==
    Logged =>
        /\ \A e \in Emits :
              /\ e.id \in m_log[lastOp.type].m_listener_ids
              /\ m_listeners[e.id] # NullListener
              /\ e.listener = m_listeners[e.id]
              /\ m_log[lastOp.type].m_enable
              /\ lastOp.level <= GetLogLevel
        /\ (~m_log[lastOp.type].m_enable => Emits = {})

\* a log call that reached a listener while another id of the log type has
\* no listener registered
C1_Witness ==
    /\ Logged
    /\ Emits # {}
    /\ \E id \in m_log[lastOp.type].m_listener_ids : m_listeners[id] = NullListener

(***************************************************************************)
(* C2.  A log call at a level strictly less severe than the threshold      *)
(* (numerically greater) calls no listener, whatever the enable flag and   *)
(* the listener ids of its log type; a level equal to the threshold passes *)
(* the threshold test; the threshold is the level of the last SetLogLevel. *)
(***************************************************************************)
C2_AboveThresholdSilent ==
    /\ [](Logged /\ lastOp.level > GetLogLevel => Emits = {} /\ ~lastOp.formatted)
    /\ [](Logged /\ lastOp.level = GetLogLevel /\ m_log[lastOp.type].m_enable
              /\ HasListeners(m_log[lastOp.type])
            => lastOp.formatted /\ Cardinality(Emits) = Cardinality(LiveIds(lastOp.type)))
    /\ [][\A level \in LOG_LEVELS : SetLogLevel(level) => GetLogLevel' = level]_vars

\* a log call one level above the threshold on an enabled log type with a
\* registered listener
C2_Witness ==
    /\ Logged
    /\ lastOp.level = GetLogLevel + 1
    /\ m_log[lastOp.type].m_enable
    /\ LiveIds(lastOp.type) # {}

Routed == /\ Logged
          /\ m_log[lastOp.type].m_enable
          /\ LiveIds(lastOp.type) # {}
          /\ Passes(lastOp.level)

\* the shape of the line: time token, "[short name]", newline at the end
LineShape(line, type) ==
    /\ Len(line) >= 2
    /\ line[1].len > 0
    /\ line[2] = Str(" ", 1)
    /\ \E i \in 1..(Len(line) - 2) :
          line[i] = Str("[", 1) /\ line[i + 1] = GetShortName(type) /\ line[i + 2] = Str("]", 1)
    /\ line[Len(line)] = Str("\n", 1)

(***************************************************************************)
(* C3.  A log call on an enabled log type c with at least one id at which  *)
(* a listener is registered, at a level that passes, calls Log exactly     *)
(* once through every id of c at which a listener is registered, on the    *)
(* listener registered there, and makes no other Log call (a listener      *)
(* registered at several ids of c is called once for each); all calls get  *)
(* the same line, which begins with a non-empty time token, contains       *)
(* "[<short name of c>]" and ends with the first MAX_MSGLEN - 1 characters *)
(* of the caller's message and a newline.                                  *)
(***************************************************************************)
C3_FanOut ==
    Routed =>
        /\ \A id \in ListenerIds :
              EmitsVia(id) = IF id \in LiveIds(lastOp.type) THEN 1 ELSE 0
        /\ \A e \in Emits : e.listener = m_listeners[e.id] /\ e.msg = lastOp.line
        /\ LineShape(lastOp.line, lastOp.type)
        /\ lastOp.line[Len(lastOp.line) - 1].text = lastOp.msg.text
        /\ lastOp.line[Len(lastOp.line) - 1].len =
              IF lastOp.msg.len > MAX_MSGLEN - 1 THEN MAX_MSGLEN - 1 ELSE lastOp.msg.len

\* a routed log call through two ids whose message does not fit the buffer
C3_Witness ==
    /\ Routed
    /\ Cardinality(LiveIds(lastOp.type)) >= 2
    /\ lastOp.msg.len >= MAX_MSGLEN

\* C3 as claimed: exactly one Log call on every listener that is registered
\* at an id of c and on no other, and the line ends with the caller's
\* message itself
C3_Original ==
    Routed =>
        LET subscribed == {m_listeners[id] : id \in LiveIds(lastOp.type)} IN
        /\ \A l \in subscribed : EmitsOn(l) = 1
        /\ \A e \in Emits : e.listener \in subscribed /\ e.msg = lastOp.line
        /\ LineShape(lastOp.line, lastOp.type)
        /\ lastOp.line[Len(lastOp.line) - 1] = lastOp.msg

(***************************************************************************)
(* C4.  After RegisterListener(X, L), AddListener(c, X) and                *)
(* SetEnable(c, true), a log call on c at a passing level calls Log        *)
(* exactly once through X, on L; after RemoveListener(c, X) no log call on *)
(* c goes through X until AddListener(c, X) is called again.  (L itself    *)
(* is still called through every other id of c at which it is registered.) *)
(***************************************************************************)
C4_AddThenRemove ==
    /\ [](Logged =>
            \A id \in ListenerIds :
                /\ ( /\ id \in m_log[lastOp.type].m_listener_ids
                     /\ m_listeners[id] # NullListener
                     /\ m_log[lastOp.type].m_enable
                     /\ Passes(lastOp.level)
                     => /\ EmitsVia(id) = 1
                        /\ \A e \in Emits : e.id = id => e.listener = m_listeners[id] )
                /\ (id \notin m_log[lastOp.type].m_listener_ids => EmitsVia(id) = 0))
    /\ [][ /\ \A id \in ListenerIds, l \in ExternalListeners :
                \/ (m_listeners'[id] = l /\ m_log' = m_log)
                \/ ~RegisterListener(id, l)
           /\ \A type \in LogTypes, id \in ListenerIds :
                /\ \/ /\ id \in m_log'[type].m_listener_ids
                      /\ m_listeners' = m_listeners
                      /\ m_log'[type].m_enable = m_log[type].m_enable
                   \/ ~AddListener(type, id)
                /\ \/ id \notin m_log'[type].m_listener_ids
                   \/ ~RemoveListener(type, id)
                /\ \/ /\ m_log'[type].m_enable
                      /\ m_log'[type].m_listener_ids = m_log[type].m_listener_ids
                      /\ m_listeners' = m_listeners
                   \/ ~SetEnable(type, TRUE)
                /\ \/ id \in m_log[type].m_listener_ids
                   \/ id \notin m_log'[type].m_listener_ids
                   \/ AddListener(type, id)
         ]_vars

\* a log call at a passing level on an enabled log type from whose ids one,
\* at which a listener is registered, is missing, while the same listener is
\* registered at another id that is among them
C4_Witness ==
    /\ Logged
    /\ m_log[lastOp.type].m_enable
    /\ Passes(lastOp.level)
    /\ \E x \in ListenerIds, y \in m_log[lastOp.type].m_listener_ids :
          /\ x \notin m_log[lastOp.type].m_listener_ids
          /\ m_listeners[x] # NullListener
          /\ m_listeners[y] = m_listeners[x]

\* C4 as claimed: exactly one Log call on the listener L registered at X
\* when X is among the ids of c, none on L when X is not
C4_Original ==
    Logged /\ m_log[lastOp.type].m_enable /\ Passes(lastOp.level) =>
        \A id \in ListenerIds :
            m_listeners[id] # NullListener =>
                EmitsOn(m_listeners[id])
                    = IF id \in m_log[lastOp.type].m_listener_ids THEN 1 ELSE 0

InWriteSection == {t \in Threads : pc[t] \in {"write", "unlock"}}
Quiescent == \A t \in Threads : pc[t] = "idle"
PassedCalls == {tn \in Threads \X (1..MaxCalls) : tn[2] \in call[tn[1]].passed}
\* the j-th message-sized piece of the file
Piece(j) == SubSeq(m_logfile.content, (j - 1) * MsgLen + 1, j * MsgLen)

(***************************************************************************)
(* C5.  Threads calling Log on one FileLogListener: at most one thread is  *)
(* between taking the lock and releasing it; and once every call has       *)
(* returned on a stream that is still good, the file holds exactly the     *)
(* messages of the calls that found the listener enabled and valid, each   *)
(* once and in one piece, all of them flushed.                             *)
(***************************************************************************)
C5_FileWritesSerialized ==
    /\ [](Cardinality(InWriteSection) <= 1)
    /\ [](Quiescent /\ m_logfile.good =>
            /\ Len(m_logfile.content) = MsgLen * Cardinality(PassedCalls)
            /\ m_logfile.flushed = Len(m_logfile.content)
            /\ \A tn \in PassedCalls :
                  \E j \in 1..Cardinality(PassedCalls) : Piece(j) = MsgOf(tn[1], tn[2]))
    \* a call on an enabled and valid listener is one of those calls
    /\ [][\A t \in Threads :
            /\ (pc[t] = "idle" /\ call'[t].n # call[t].n /\ m_enable)
                    => pc'[t] = "IsValid"
            /\ (pc[t] = "IsValid" /\ pc'[t] # "IsValid" /\ m_logfile.good)
                    => pc'[t] = "lock" /\ call'[t].n \in call'[t].passed
         ]_vars

\* every thread has made one call, each found the listener enabled and
\* valid, and all have returned
C5_Witness ==
    /\ Quiescent
    /\ m_logfile.good
    /\ \A t \in Threads : call[t].n = 1 /\ call[t].passed = {1}

(***************************************************************************)
(* C6.  After Shutdown GetInstance returns null; a GenericLog call made    *)
(* while there is no instance calls no listener, formats nothing, does not *)
(* go through the null pointer and leaves the state as it was.             *)
(***************************************************************************)
C6_NoInstanceNoOp ==
    /\ [](lastOp.op = "Shutdown" => GetInstance = "nullptr")
    /\ [](lastOp.op = "GenericLog" /\ GetInstance = "nullptr"
            => Emits = {} /\ ~lastOp.formatted /\ ~lastOp.fault)
    /\ [][lastOp'.op = "GenericLog" => UNCHANGED <<managerState, fileVars, instances, threadVars>>]_vars

\* a GenericLog call made with no instance
C6_Witness == lastOp.op = "GenericLog" /\ GetInstance = "nullptr"

JustConstructed == lastOp.op = "LogManager"

(***************************************************************************)
(* C7.  Whatever Verbosity the configuration holds, the threshold after    *)
(* construction is within LNOTICE..MAX_LOGLEVEL: a value below LNOTICE and *)
(* a missing key give LNOTICE, a value above MAX_LOGLEVEL gives            *)
(* MAX_LOGLEVEL, a value in the range is kept.                             *)
(***************************************************************************)
C7_VerbosityClamped ==
    JustConstructed =>
        LET v == lastOp.cfg.Verbosity IN
        /\ GetLogLevel \in LNOTICE..MAX_LOGLEVEL
        /\ (~v.present => GetLogLevel = LNOTICE)
        /\ (v.present /\ v.value < LNOTICE => GetLogLevel = LNOTICE)
        /\ (v.present /\ v.value > MAX_LOGLEVEL => GetLogLevel = MAX_LOGLEVEL)
        /\ (v.present /\ v.value \in LNOTICE..MAX_LOGLEVEL => GetLogLevel = v.value)

\* a construction from a Verbosity above MAX_LOGLEVEL
C7_Witness ==
    /\ JustConstructed
    /\ lastOp.cfg.Verbosity.present
    /\ lastOp.cfg.Verbosity.value > MAX_LOGLEVEL

OptionOn(id, cfg) ==
    \/ id = "FILE_LISTENER" /\ cfg.WriteToFile = "true"
    \/ id = "CONSOLE_LISTENER" /\ cfg.WriteToConsole # "false"
    \/ id = "LOG_WINDOW_LISTENER" /\ cfg.WriteToWindow # "false"

ConsoleOnly(cfg, type) ==
    /\ cfg.Logs[type] = "true"
    /\ cfg.WriteToConsole = "true"
    /\ cfg.WriteToFile = "false"
    /\ cfg.Verbosity = [present |-> TRUE, value |-> LINFO]

(***************************************************************************)
(* C8.  After construction a log type enabled in the configuration is      *)
(* enabled and its listener ids are exactly those of File, Console and     *)
(* Window whose option is on (WriteToFile true; WriteToConsole and         *)
(* WriteToWindow true or missing); any other log type is disabled with no  *)
(* listener ids.  So with c enabled, WriteToConsole on, WriteToFile off    *)
(* and Verbosity LINFO, a log call at LWARNING on c right after            *)
(* construction makes one Log call on the console listener and none on the *)
(* file listener.                                                          *)
(***************************************************************************)
C8_ConfigurationWiring ==
    /\ [](JustConstructed =>
            \A type \in LogTypes :
                IF lastOp.cfg.Logs[type] = "true"
                THEN /\ m_log[type].m_enable
                     /\ m_log[type].m_listener_ids
                            = {id \in ListenerIds : OptionOn(id, lastOp.cfg)}
                ELSE /\ ~m_log[type].m_enable
                     /\ m_log[type].m_listener_ids = {})
    /\ [][ /\ JustConstructed
           /\ lastOp'.op = "GenericLog"
           /\ lastOp'.level = LWARNING
           /\ ConsoleOnly(lastOp.cfg, lastOp'.type)
           => /\ Cardinality({i \in 1..Len(lastOp'.events) :
                                lastOp'.events[i].listener = ConsoleListenerObj}) = 1
              /\ \A i \in 1..Len(lastOp'.events) :
                    /\ lastOp'.events[i].listener # FileLogListenerObj
                    /\ lastOp'.events[i].id # "FILE_LISTENER"
         ]_vars

\* a construction that enables a log type for the console and the window
\* only, at Verbosity LINFO
C8_Witness ==
    /\ JustConstructed
    /\ \E type \in LogTypes :
          /\ ConsoleOnly(lastOp.cfg, type)
          /\ m_log[type].m_listener_ids = {"CONSOLE_LISTENER", "LOG_WINDOW_LISTENER"}

(***************************************************************************)
(* C9.  A construction from a configuration with every key missing reads   *)
(* WriteToFile as false, WriteToConsole and WriteToWindow as true, sets    *)
(* the threshold to LNOTICE and leaves every log type disabled with no     *)
(* listener ids.  A log call on a log type that is disabled or has no      *)
(* listener ids calls no listener; a disabled log type becomes enabled     *)
(* only by SetEnable(c, true), and a log type without listener ids gets    *)
(* one only by AddListener(c, id).                                         *)
(***************************************************************************)
C9_MissingKeysDefaults ==
    /\ [](JustConstructed /\ lastOp.cfg = NoKeys =>
            /\ ~WriteFile(lastOp.cfg)
            /\ WriteConsole(lastOp.cfg)
            /\ WriteWindow(lastOp.cfg)
            /\ GetLogLevel = LNOTICE
            /\ \A type \in LogTypes :
                  ~m_log[type].m_enable /\ m_log[type].m_listener_ids = {})
    /\ [](Logged /\ (~m_log[lastOp.type].m_enable
                       \/ m_log[lastOp.type].m_listener_ids = {})
            => Emits = {})
    /\ [][\A type \in LogTypes :
            /\ \/ m_log[type].m_enable
               \/ ~m_log'[type].m_enable
               \/ SetEnable(type, TRUE)
            /\ \/ m_log[type].m_listener_ids # {}
               \/ m_log'[type].m_listener_ids = {}
               \/ \E id \in ListenerIds : AddListener(type, id)
         ]_vars

\* the construction from the configuration with every key missing
C9_Witness == JustConstructed /\ lastOp.cfg = NoKeys

(***************************************************************************)
(* C10.  A Log call that finds the FileLogListener not enabled or not      *)
(* valid writes nothing: every character in the file is of a call that     *)
(* found it enabled and valid.  A listener whose file could not be opened  *)
(* is never valid, so no call on it passes the test and the file stays as  *)
(* it was; a stream that is not good never becomes good again; m_enable is *)
(* true after construction whether or not the file was opened.             *)
(***************************************************************************)
C10_FileListenerDegrades ==
    /\ [](\A i \in 1..Len(m_logfile.content) :
            m_logfile.content[i][2] \in call[m_logfile.content[i][1]].passed)
    /\ [](~m_logfile.is_open =>
            /\ ~IsValid
            /\ m_logfile.content = <<>>
            /\ \A t \in Threads : call[t].passed = {} /\ pc[t] \in {"idle", "IsValid"})
    /\ [](lastOp.op = "FileLogListener" => m_enable)
    /\ [][~m_logfile.good => ~m_logfile'.good]_vars
    /\ [][\A t \in Threads :
            (pc[t] = "idle" /\ pc'[t] = "idle" /\ call'[t].n # call[t].n)
                => ~m_enable /\ m_logfile' = m_logfile]_vars
    /\ [][\A t \in Threads :
            (pc[t] = "IsValid" /\ pc'[t] = "idle")
                => ~m_logfile.good /\ m_logfile' = m_logfile]_vars

\* the file could not be opened and the threads have made all their calls
C10_Witness ==
    /\ ~m_logfile.is_open
    /\ Quiescent
    /\ CallsOf(NumThreads) = MaxCalls

\* how many times the destructor deleted the listener
Deletes(listener) ==
    Cardinality({i \in 1..Len(lastOp.deleted) : lastOp.deleted[i] = listener})

(***************************************************************************)
(* C11.  After Shutdown every listener that was installed at               *)
(* FILE_LISTENER or CONSOLE_LISTENER while the LogManager lived, the two   *)
(* the constructor installed among them, has been deleted exactly once,    *)
(* and Shutdown deletes no listener that is registered at                  *)
(* LOG_WINDOW_LISTENER.                                                    *)
(***************************************************************************)
C11_TeardownOwnership ==
    /\ [](lastOp.op = "Shutdown" =>
            /\ Deletes(FileLogListenerObj) = 1
            /\ Deletes(ConsoleListenerObj) = 1
            /\ \A l \in ExternalListeners : Deletes(l) <= 1)
    /\ [][lastOp'.op = "Shutdown" /\ m_listeners["LOG_WINDOW_LISTENER"] # NullListener
            => \A i \in 1..Len(lastOp'.deleted) :
                    lastOp'.deleted[i] # m_listeners["LOG_WINDOW_LISTENER"]]_vars

(***************************************************************************)
(* C12.  IsEnabled(c, l) is true exactly when log type c is enabled and l  *)
(* is not above the threshold; a log call at level l on c calls at least   *)
(* one listener exactly when IsEnabled(c, l) is true and c has an id at    *)
(* which a listener is registered; GetLogLevel returns the level the last  *)
(* SetLogLevel was given.                                                  *)
(***************************************************************************)
C12_IsEnabledAgrees ==
    /\ [](Live => \A type \in LogTypes, level \in LOG_LEVELS :
                    IsEnabled(type, level) <=> (m_log[type].m_enable /\ Passes(level)))
    /\ [](Logged =>
            (Emits # {} <=> (IsEnabled(lastOp.type, lastOp.level)
                                /\ LiveIds(lastOp.type) # {})))
    /\ [][\A level \in LOG_LEVELS : GetLogLevel' = level \/ ~SetLogLevel(level)]_vars

\* a log call at the threshold itself that reached a listener
C12_Witness ==
    /\ Logged
    /\ lastOp.level = GetLogLevel
    /\ IsEnabled(lastOp.type, lastOp.level)
    /\ Emits # {}

\* the three tests of the filter, on the log type and level of the last call
FilterPasses ==
    /\ m_log[lastOp.type].m_enable
    /\ Passes(lastOp.level)
    /\ m_log[lastOp.type].m_listener_ids # {}

(***************************************************************************)
(* C13.  A log call formats its message exactly when the log type is       *)
(* enabled, the level is not above the threshold and the log type has at   *)
(* least one listener id; a call that does not pass these tests formats    *)
(* nothing and calls no listener.  (A call that passes them formats its    *)
(* message also when no listener is registered at any of the ids.)         *)
(***************************************************************************)
C13_FormatsOnlyIfPasses ==
    Logged =>
        /\ lastOp.formatted <=> FilterPasses
        /\ ~FilterPasses => Emits = {} /\ lastOp.line = <<>>

\* a call that passed the tests and formatted, with no listener registered
\* at any id of its log type
C13_Witness ==
    /\ Logged
    /\ lastOp.formatted
    /\ Emits = {}

\* C13 as claimed: also, a log call that calls no listener formatted nothing
C13_Original ==
    Logged =>
        /\ lastOp.formatted => FilterPasses
        /\ ~FilterPasses => ~lastOp.formatted /\ Emits = {}
        /\ Emits = {} => ~lastOp.formatted

(***************************************************************************)
(* C14.  A log call that runs while other threads call SetEnable,          *)
(* SetLogLevel, AddListener and RemoveListener calls, when it returns,     *)
(* exactly the listeners a log call made all at once would have called at  *)
(* one of the instants between its first statement and its return.         *)
(***************************************************************************)
C14_NoTornReads ==
    log_thread.pc = "done" => log_thread.delivered \in log_thread.seen

(***************************************************************************)
(* C18.  A GenericLog call that runs while another thread is in Shutdown   *)
(* never calls through a null instance pointer and never reads the         *)
(* LogManager, a container or the listener table after Shutdown has        *)
(* deleted the LogManager: it makes its Log calls before the deletion or   *)
(* makes none.                                                             *)
(***************************************************************************)
C18_NoUseAfterShutdown ==
    /\ log_thread.fault = "none"
    /\ (Destroyed /\ log_thread.pc = "done" /\ log_thread.delivered # <<>>
            => lastOp.op \in {"~LogManager", "Shutdown"})

(***************************************************************************)
(* C15.  After any sequence of Init and Shutdown calls at most one         *)
(* LogManager exists: every LogManager that Init constructed is the one    *)
(* GetInstance returns or has been deleted.                                *)
(***************************************************************************)
C15_SingleInstance ==
    instances = IF GetInstance = "nullptr" THEN 0 ELSE 1

\* the state of a log type
CategoryState(type) ==
    IF ~m_log[type].m_enable THEN "Disabled"
    ELSE IF m_log[type].m_listener_ids = {} THEN "EnabledNoListeners"
    ELSE "EnabledRouting"

\* the number of listener ids of a log type
Subscribed(type) == Cardinality(m_log[type].m_listener_ids)

(***************************************************************************)
(* C16.  A log call calls a listener only when its log type is enabled     *)
(* with a non-empty set of listener ids (EnabledRouting).  No state of a   *)
(* log type is final while the LogManager lives: a disabled log type can   *)
(* be enabled, and its listener ids emptied or filled one SetEnable,       *)
(* AddListener or RemoveListener at a time; an enabled one without         *)
(* listener ids can be disabled or given an id; an enabled one with        *)
(* listener ids can be disabled, and RemoveListener takes its ids away one *)
(* by one until none is left.                                              *)
(***************************************************************************)
C16_CategoryStates ==
    /\ (Logged /\ Emits # {} => CategoryState(lastOp.type) = "EnabledRouting")
    /\ (Live => \A type \in LogTypes :
         /\ CategoryState(type) = "Disabled" =>
               /\ ENABLED (/\ SetEnable(type, TRUE)
                           /\ CategoryState(type)' =
                                 IF Subscribed(type) = 0 THEN "EnabledNoListeners"
                                                         ELSE "EnabledRouting")
               /\ ENABLED (\E id \in ListenerIds :
                              /\ AddListener(type, id)
                              /\ Subscribed(type)' > 0)
               /\ Subscribed(type) > 0 =>
                     ENABLED (\E id \in ListenerIds :
                                /\ RemoveListener(type, id)
                                /\ Subscribed(type)' < Subscribed(type))
         /\ CategoryState(type) = "EnabledNoListeners" =>
               /\ ENABLED (SetEnable(type, FALSE) /\ CategoryState(type)' = "Disabled")
               /\ ENABLED (\E id \in ListenerIds :
                              /\ AddListener(type, id)
                              /\ CategoryState(type)' = "EnabledRouting")
         /\ CategoryState(type) = "EnabledRouting" =>
               /\ ENABLED (SetEnable(type, FALSE) /\ CategoryState(type)' = "Disabled")
               /\ ENABLED (\E id \in ListenerIds :
                              /\ RemoveListener(type, id)
                              /\ Subscribed(type)' < Subscribed(type)
                              /\ Subscribed(type) = 1 =>
                                    CategoryState(type)' = "EnabledNoListeners"))

\* a log call on a log type in EnabledRouting that called a listener, while
\* the other log type is disabled
C16_Witness ==
    /\ Logged
    /\ Emits # {}
    /\ CategoryState(lastOp.type) = "EnabledRouting"
    /\ \E type \in LogTypes : CategoryState(type) = "Disabled"

RECURSIVE Written(_, _)
\* the messages of the calls 1..n of thread t that found the listener
\* enabled and valid, one after the other
Written(t, n) ==
    IF n = 0 THEN <<>>
    ELSE Written(t, n - 1) \o (IF n \in call[t].passed THEN MsgOf(t, n) ELSE <<>>)

\* what the file holds of thread t
FileOf(t) == SelectSeq(m_logfile.content, LAMBDA c : c[1] = t)

(***************************************************************************)
(* C17 (invariant I3).  What a thread has written is in the file in the    *)
(* order of its calls, at every moment and whatever other threads write in *)
(* between: of two characters of one thread the one of the earlier call,   *)
(* or the earlier one of the same call, comes first; and when every call   *)
(* has returned on a stream that is still good, the characters of each     *)
(* thread are its messages, as they were passed, in call order.            *)
(***************************************************************************)
C17_CallOrder ==
    /\ \A p, q \in 1..Len(m_logfile.content) :
          (p < q /\ m_logfile.content[p][1] = m_logfile.content[q][1]) =>
              \/ m_logfile.content[p][2] < m_logfile.content[q][2]
              \/ /\ m_logfile.content[p][2] = m_logfile.content[q][2]
                 /\ m_logfile.content[p][3] < m_logfile.content[q][3]
    /\ (Quiescent /\ m_logfile.good =>
            \A t \in Threads : FileOf(t) = Written(t, call[t].n))

\* a thread has written two messages and another thread one in between
C17_Witness ==
    /\ Quiescent
    /\ m_logfile.good
    /\ Len(m_logfile.content) = 3 * MsgLen
    /\ m_logfile.content[1][1] = m_logfile.content[2 * MsgLen + 1][1]
    /\ m_logfile.content[1][1] # m_logfile.content[MsgLen + 1][1]

\* the step leaves the containers other than type, and the names of all,
\* as they are
OtherContainersSame(type) ==
    /\ \A t2 \in LogTypes \ {type} : m_log'[t2] = m_log[t2]
    /\ m_log'[type].m_short_name = m_log[type].m_short_name
    /\ m_log'[type].m_full_name = m_log[type].m_full_name

(***************************************************************************)
(* C19.  SetEnable(c, b) changes nothing but the enable flag of c, which   *)
(* becomes b; AddListener(c, X) and RemoveListener(c, X) change nothing    *)
(* but whether X is among the listener ids of c, and leave the ids as they *)
(* are when X is already there, or already absent; SetLogLevel changes     *)
(* nothing but the threshold; RegisterListener(X, L) changes nothing but   *)
(* the table entry of X; a log call changes none of these.  What a call    *)
(* leaves does not depend on what was there before, and no step changes    *)
(* the short or the full name of a log type.                               *)
(***************************************************************************)
C19_Frame ==
    [][ /\ lastOp'.op = "GenericLog" => UNCHANGED managerState
        /\ lastOp'.op # "GenericLog" =>
            /\ \A type \in LogTypes, enable \in BOOLEAN :
                  \/ /\ m_log'[type].m_enable = enable
                     /\ m_log'[type].m_listener_ids = m_log[type].m_listener_ids
                     /\ OtherContainersSame(type)
                     /\ UNCHANGED <<m_level, m_listeners, s_log_manager>>
                  \/ ~SetEnable(type, enable)
            /\ \A type \in LogTypes, id \in ListenerIds :
                  /\ \/ /\ m_log'[type].m_listener_ids =
                                m_log[type].m_listener_ids \cup {id}
                        /\ m_log'[type].m_enable = m_log[type].m_enable
                        /\ OtherContainersSame(type)
                        /\ id \in m_log[type].m_listener_ids => m_log' = m_log
                        /\ UNCHANGED <<m_level, m_listeners, s_log_manager>>
                     \/ ~AddListener(type, id)
                  /\ \/ /\ m_log'[type].m_listener_ids =
                                m_log[type].m_listener_ids \ {id}
                        /\ m_log'[type].m_enable = m_log[type].m_enable
                        /\ OtherContainersSame(type)
                        /\ id \notin m_log[type].m_listener_ids => m_log' = m_log
                        /\ UNCHANGED <<m_level, m_listeners, s_log_manager>>
                     \/ ~RemoveListener(type, id)
            /\ \A level \in LOG_LEVELS :
                  \/ /\ m_level' = level
                     /\ UNCHANGED <<m_log, m_listeners, s_log_manager>>
                  \/ ~SetLogLevel(level)
            /\ \A id \in ListenerIds, l \in ExternalListeners \cup {NullListener} :
                  \/ /\ m_listeners'[id] = l
                     /\ \A id2 \in ListenerIds \ {id} :
                            m_listeners'[id2] = m_listeners[id2]
                     /\ UNCHANGED <<m_log, m_level, s_log_manager>>
                  \/ ~RegisterListener(id, l)
        /\ \A type \in LogTypes :
              /\ GetShortName(type)' = GetShortName(type)
              /\ GetFullName(type)' = GetFullName(type)
      ]_vars

\* a log type with two listener ids, one of them with no listener
\* registered, after a log call on it
C19_Witness ==
    /\ Logged
    /\ Emits # {}
    /\ Cardinality(m_log[lastOp.type].m_listener_ids) >= 2
    /\ LiveIds(lastOp.type) # m_log[lastOp.type].m_listener_ids

\* the events of the log call of a level on a log type
EventsOf(level, type) ==
    Log(s_log_manager, level, type, SourceFile, SourceLine, MessageOf(type)).events

(***************************************************************************)
(* C20.  RegisterListener(X, L) makes L the entry of X in the listener     *)
(* table, whatever the entry was, and leaves the listener ids of every log *)
(* type as they are; the entry of X changes in no other step.  A log call  *)
(* that passes the filter calls Log once through every id of its log type  *)
(* at which a listener is registered, on the listener registered there     *)
(* now, and makes no call through an id whose entry is nullptr: when X is  *)
(* the only id of the log type and its entry is nullptr, no listener is    *)
(* called.  (A listener overwritten at X is still called through another   *)
(* id of the log type at which it is registered.)                          *)
(***************************************************************************)
C20_RegisterOverwrites ==
    /\ [](Logged /\ FilterPasses =>
            /\ \A id \in m_log[lastOp.type].m_listener_ids :
                  /\ m_listeners[id] # NullListener =>
                        /\ EmitsVia(id) = 1
                        /\ \A e \in Emits : e.id = id => e.listener = m_listeners[id]
                  /\ m_listeners[id] = NullListener => EmitsVia(id) = 0
            /\ \A id \in ListenerIds :
                  /\ m_log[lastOp.type].m_listener_ids = {id}
                  /\ m_listeners[id] = NullListener
                  => Emits = {})
    /\ [][ /\ \A id \in ListenerIds, l \in GuiListeners \cup {NullListener} :
                \/ /\ m_listeners'[id] = l
                   /\ \A id2 \in ListenerIds \ {id} :
                          m_listeners'[id2] = m_listeners[id2]
                   /\ m_log' = m_log
                \/ ~RegisterListener(id, l)
           /\ \A id \in ListenerIds :
                \/ m_listeners'[id] = m_listeners[id]
                \/ \E l \in GuiListeners \cup {NullListener} : RegisterListener(id, l)
         ]_vars

\* a log call that passes the filter, made through an id whose entry, the
\* listener the constructor registered, was overwritten with a listener of
\* the GUI code, and through an id whose entry was overwritten with nullptr
C20_Witness ==
    /\ Logged
    /\ FilterPasses
    /\ \E x, y \in m_log[lastOp.type].m_listener_ids :
          /\ m_listeners[x] \in GuiListeners
          /\ x \in {"FILE_LISTENER", "CONSOLE_LISTENER"}
          /\ \E e \in Emits : e.id = x /\ e.listener = m_listeners[x]
          /\ y \in {"FILE_LISTENER", "CONSOLE_LISTENER"}
          /\ m_listeners[y] = NullListener

\* C20 as claimed: once RegisterListener(X, L2) has overwritten L1, a log
\* call that passes on a log type with X among its ids calls Log on L2 and
\* never on L1
C20_Original ==
    [][ \A id \in ListenerIds, l2 \in GuiListeners :
            /\ RegisterListener(id, l2)
            /\ m_listeners[id] \notin {NullListener, l2}
            => \A type \in LogTypes, level \in FrameLevels :
                  /\ id \in m_log'[type].m_listener_ids
                  /\ m_log'[type].m_enable
                  /\ level <= m_level'
                  => /\ \E i \in 1..Len(EventsOf(level, type)') :
                            EventsOf(level, type)'[i].listener = l2
                     /\ \A i \in 1..Len(EventsOf(level, type)') :
                            EventsOf(level, type)'[i].listener # m_listeners[id]
      ]_vars

====
